---------------------------- MODULE Spec2Model ----------------------------
(***************************************************************************)
(* Audio capture, voice-activity detection and segmentation pipeline of    *)
(* the voice-controlled robot (lib/audio_capture.py, lib/sttt.py, chat.py).*)
(*                                                                         *)
(* Units.  Time is in milliseconds of time.monotonic().  Amplitudes are    *)
(* integers: a mean absolute amplitude ("energy") is in units of 1e-4 and  *)
(* a peak amplitude in units of 1e-3, so VAD_THRESHOLD 0.0035 is 35 and    *)
(* the auto-gain target 0.9 is 900.                                        *)
(*                                                                         *)
(* An np.ndarray of raw samples is a sequence of the hardware blocks it    *)
(* was concatenated from; a block records its number of frames, its mean   *)
(* absolute amplitude and its peak.                                        *)
(***************************************************************************)
EXTENDS Integers, Sequences, FiniteSets, TLC

VARIABLES
    working_sample_rate,  \* capture(): rate negotiated with the device
    channels,             \* channels the device really delivers per frame
    audio_queue,          \* AudioStream.audio_queue (queue.Queue, unbounded)
    chunks,               \* read_all(): local list of dequeued blocks
    data,                 \* capture(): the drained frame (<<>> is None)
    buffer,               \* capture(): list of drained frames since onset
    last_voice_time,      \* capture(): Optional[float], ms
    paused,               \* AudioCapture.paused
    pc,                   \* position of the consumer thread
    clock,                \* time.monotonic(), ms
    nextId,               \* number of blocks the driver has delivered so far
    delivered,            \* every audio_callback invocation, in order
    cmds,                 \* process_gpt_response: commands still to execute
    failures,             \* callback invocations that ended in a caught error
    paused_ms,            \* ms spent paused since last_voice_time was set,
                          \* before the frame in hand passed the pause check
    valid,                \* rates sd.check_input_settings accepts on the device
    probes,               \* rates _get_working_sample_rate has probed, in order
    stream,               \* the with block of sd.InputStream is entered
    drained,              \* ids of the blocks read_all has returned, in order
    samples,              \* _normalize_audio: the array passed in
    normalized,           \* _normalize_audio: the array returned
    audio_in,             \* _preprocess_audio: the array passed in
    mono,                 \* _preprocess_audio: the local the steps assign
    stderr,               \* statuses AudioStream.callback has printed
    response,             \* process_gpt_response: the response passed in
    executed,             \* commands execute_command was called with, in order
    h,                    \* lib/firmware: the GPIO chip handle (global)
    opened,               \* calls of lgpio.gpiochip_open so far
    start_calls,          \* calls of firmware.start so far
    level,                \* level last written to each direction pin
    duty,                 \* duty cycle last set on each PWM pin
    lgpio                 \* the module bound to the name lgpio at import

vars == <<working_sample_rate, channels, audio_queue, chunks, data, buffer,
          last_voice_time, paused, pc, clock, nextId, delivered, cmds,
          failures, paused_ms, valid, probes, stream, drained, samples,
          normalized, audio_in, mono, stderr, response, executed, h, opened,
          start_calls, level, duty, lgpio>>

\* state of _get_working_sample_rate
negotiation == <<valid, probes>>

\* state of one call of _normalize_audio on an array of samples
normalization == <<samples, normalized>>

\* state of one call of _preprocess_audio on its own
preprocessing == <<audio_in, mono>>

\* state of one call of process_gpt_response
commanding == <<response, executed>>

\* state of lib/firmware and of the GPIO lines behind it
firmware == <<h, opened, start_calls, level, duty, lgpio>>

-----------------------------------------------------------------------------
(* Program constants *)

SAMPLE_RATE == 16000

FALLBACK_SAMPLE_RATES == <<16000, 44100, 48000, 8000>>

CHANNELS == 1

\* 0.0035, in units of 1e-4
VAD_THRESHOLD == 35

SILENCE_THRESHOLD_MS == 800

\* MIN_AUDIO_DURATION_SECONDS = 0.5, in tenths of a second
MIN_AUDIO_DURATION_TENTHS == 5

\* the auto-gain target 0.9 of _normalize_audio, in units of 1e-3
GAIN_TARGET == 900

\* the clip bound 1.0 of _normalize_audio, in units of 1e-3
CLIP_BOUND == 1000

\* Optional[float] None of last_voice_time
None == -1

(* Bounds of the model *)

\* blocks the driver delivers in one run
MaxBlocks == 2

\* blocks the driver delivers in a run long enough for two utterances
MaxRunBlocks == 4

\* the clock stops advancing past this many milliseconds
MaxClock == 1600

\* commands in one GPT response
MaxCmds == 1

\* samples in an array passed to _normalize_audio on its own
MaxSamples == 3

\* time.monotonic() advances by one of these amounts between two events
Ticks == {SILENCE_THRESHOLD_MS - 1, SILENCE_THRESHOLD_MS}

Rates == {FALLBACK_SAMPLE_RATES[i] : i \in 1..Len(FALLBACK_SAMPLE_RATES)}

-----------------------------------------------------------------------------
(* Arrays of samples *)

RECURSIVE SumFrames(_)
SumFrames(a) == IF a = <<>> THEN 0 ELSE Head(a).n + SumFrames(Tail(a))

\* audio.shape[0]
Frames(a) == SumFrames(a)

RECURSIVE SumAbs(_)
\* sum of |sample| over the array (per channel), in units of 1e-4
SumAbs(a) == IF a = <<>> THEN 0 ELSE Head(a).n * Head(a).e + SumAbs(Tail(a))

RECURSIVE PeakOf(_)
\* np.abs(audio).max(), in units of 1e-3
PeakOf(a) ==
    IF a = <<>> THEN 0
    ELSE LET r == PeakOf(Tail(a))
         IN IF Head(a).pk > r THEN Head(a).pk ELSE r

RECURSIVE Concatenate(_)
\* np.concatenate over a list of arrays
Concatenate(list) ==
    IF list = <<>> THEN <<>> ELSE Head(list) \o Concatenate(Tail(list))

Ids(a) == {a[i].id : i \in 1..Len(a)}

RECURSIVE GCD(_, _)
GCD(a, b) == IF b = 0 THEN a ELSE GCD(b, a % b)

-----------------------------------------------------------------------------
(* AudioCapture helpers *)

\* a variant in which the threshold itself counts as voice
_is_voice_ge(a) == SumAbs(a) >= VAD_THRESHOLD * Frames(a)

\* np.mean(np.abs(audio)) > vad_threshold, without dividing
_is_voice(a) == SumAbs(a) > VAD_THRESHOLD * Frames(a)

MinSamples(sample_rate) == (sample_rate * MIN_AUDIO_DURATION_TENTHS) \div 10

\* a variant with a non-strict comparison
_is_min_duration_ge(a, sample_rate) == Frames(a) >= MinSamples(sample_rate)

\* audio.shape[0] > int(sample_rate * MIN_AUDIO_DURATION_SECONDS)
_is_min_duration(a, sample_rate) == Frames(a) > MinSamples(sample_rate)

\* SpeechToTextTranscriber._is_min_duration takes its rate from
\* self.sample_rate, which __init__ sets to SAMPLE_RATE
SttGateRate == SAMPLE_RATE

\* a raw array as captured: shape (frames, channels) at the capture rate
RawAudio(a, sample_rate) ==
    [blocks |-> a, n |-> Frames(a), ch |-> channels, pk |-> PeakOf(a),
     rate |-> sample_rate]

\* indata of sounddevice is always 2-D: keep channel 0
_ensure_mono(x) == [x EXCEPT !.ch = 1]

Clip(v) == IF v > CLIP_BOUND THEN CLIP_BOUND ELSE v

\* a variant without the auto-gain
_normalize_no_gain(x) == [x EXCEPT !.pk = Clip(x.pk)]

\* audio / max_val * 0.9 when max_val > 0, then np.clip(audio, -1.0, 1.0)
_normalize_audio(x) ==
    LET max_val == x.pk
        scaled  == IF max_val > 0 THEN (x.pk * GAIN_TARGET) \div max_val
                   ELSE x.pk
    IN [x EXCEPT !.pk = Clip(scaled)]

\* Fraction(16000, orig_sample_rate), in lowest terms
RatioNumerator(orig_sample_rate) == 16000 \div GCD(16000, orig_sample_rate)

RatioDenominator(orig_sample_rate) ==
    orig_sample_rate \div GCD(16000, orig_sample_rate)

\* a variant that hands the samples on at the capture rate
_resample_skipped(x, orig_sample_rate) == x

\* signal.resample_poly(audio, up, down): ceil(n * up / down) samples, which
\* are samples at rate * up / down.  The effect of the anti-aliasing filter
\* on the amplitudes is not modelled.
_resample_to_16k(x, orig_sample_rate) ==
    IF orig_sample_rate = 16000 THEN x
    ELSE LET up   == RatioNumerator(orig_sample_rate)
             down == RatioDenominator(orig_sample_rate)
         IN [x EXCEPT !.n = (x.n * up + down - 1) \div down,
                      !.rate = (x.rate * up) \div down]

_preprocess_audio(x, orig_sample_rate) ==
    _resample_to_16k(_normalize_audio(_ensure_mono(x)), orig_sample_rate)

-----------------------------------------------------------------------------
(* The driver: blocks it may deliver *)

\* mean absolute amplitude (1e-4) and peak (1e-3) of a block of each kind
KindEnergy(k) ==
    IF k = "voice" THEN 500
    ELSE IF k = "loud" THEN 1000
    ELSE IF k = "quiet" THEN 20
    ELSE IF k = "above" THEN VAD_THRESHOLD + 1
    ELSE IF k = "edge" THEN VAD_THRESHOLD
    ELSE IF k = "below" THEN VAD_THRESHOLD - 1
    ELSE 0

KindPeak(k) ==
    IF k = "voice" THEN 450
    ELSE IF k = "loud" THEN 900
    ELSE IF k = "silence" THEN 0
    ELSE 4

BlockShapes(rate) ==
    {[k |-> "voice", n |-> 1],
     [k |-> "voice", n |-> MinSamples(rate) - 1],
     [k |-> "voice", n |-> MinSamples(rate)],
     [k |-> "quiet", n |-> 1]}

\* indata.copy() of one driver callback; dp records the pause flag at the push
Block(id, shape, flag) ==
    [id |-> id, n |-> shape.n, e |-> KindEnergy(shape.k),
     pk |-> KindPeak(shape.k), dp |-> flag]

-----------------------------------------------------------------------------
(* lib/firmware at import, and no response in hand *)

\* firmware/__init__.py lines 13-14
MOTOR_DIR_PINS == <<17, 22, 23, 24>>

MOTOR_PWM_PINS == <<12, 13>>

DirPins == {MOTOR_DIR_PINS[i] : i \in 1..Len(MOTOR_DIR_PINS)}

PwmPins == {MOTOR_PWM_PINS[i] : i \in 1..Len(MOTOR_PWM_PINS)}

\* lines 4-10: lgpio or, without it, lgpio_mock; h = None; the lines are low
\* and the PWM outputs off until something is written to them
Imported(lib) ==
    /\ lgpio = lib
    /\ h = None
    /\ opened = 0
    /\ start_calls = 0
    /\ level = [pin \in DirPins |-> 0]
    /\ duty = [pin \in PwmPins |-> 0]

\* process_gpt_response has not been called
NoResponse ==
    /\ response = <<>>
    /\ executed = <<>>

-----------------------------------------------------------------------------
(* Initial state: capture() has negotiated a rate and opened the stream *)

\* devices: the rate that validates first and the channels really delivered
Devices ==
    {[rate |-> 16000, ch |-> CHANNELS], [rate |-> 44100, ch |-> 2],
     [rate |-> 48000, ch |-> CHANNELS], [rate |-> 8000, ch |-> 2]}

\* position of a rate in the candidate list
Position(rate) ==
    CHOOSE i \in 1..Len(FALLBACK_SAMPLE_RATES) : FALLBACK_SAMPLE_RATES[i] = rate

\* the candidates probed when rate is the first to validate
Probed(rate) == SubSeq(FALLBACK_SAMPLE_RATES, 1, Position(rate))

\* capture() has negotiated a rate with device dev, which validates at that
\* rate only, has opened the stream and entered the loop
Started(dev) ==
    /\ working_sample_rate = dev.rate
    /\ channels = dev.ch
    /\ audio_queue = <<>>
    /\ chunks = <<>>
    /\ data = <<>>
    /\ buffer = <<>>
    /\ last_voice_time = None
    /\ paused = FALSE
    /\ pc = "read_all"
    /\ clock = 0
    /\ nextId = 1
    /\ delivered = <<>>
    /\ cmds = <<>>
    /\ failures = 0
    /\ paused_ms = 0
    /\ valid = {dev.rate}
    /\ probes = Probed(dev.rate)
    /\ stream = TRUE
    /\ drained = <<>>
    /\ samples = <<>>
    /\ normalized = <<>>
    /\ audio_in = <<>>
    /\ mono = <<>>
    /\ stderr = 0
    /\ NoResponse
    /\ Imported("lgpio")

\* a device that validates at SAMPLE_RATE and delivers mono
Init == Started([rate |-> SAMPLE_RATE, ch |-> CHANNELS])

InitAnyDevice == \E dev \in Devices : Started(dev)

-----------------------------------------------------------------------------
(* Producer thread *)

\* queue.Queue(): maxsize 0, the queue is unbounded
maxsize == 0

\* a variant with room for one block
full_at_one(q) == Len(q) >= 1

\* queue.Queue.full, on which put() would wait
full(q) == maxsize > 0 /\ Len(q) >= maxsize

\* lines 28-29: if status: print(status, file=sys.stderr)
printed(log, status) == IF status THEN log + 1 ELSE log

\* a variant that drops the block of an invocation with a status
enqueued_unless_status(q, block, status) ==
    IF status THEN q ELSE Append(q, block)

\* line 30: self.audio_queue.put(indata.copy()), whatever the status
enqueued(q, block, status) == Append(q, block)

\* AudioStream.callback, run by the driver while the stream is open: print
\* the status if there is one, enqueue a copy of the block, never block
Callback(limit, shapes, statuses) ==
    /\ nextId <= limit
    /\ stream
    /\ ~full(audio_queue)
    /\ \E shape \in shapes, status \in statuses :
          /\ stderr' = printed(stderr, status)
          /\ audio_queue' =
                enqueued(audio_queue, Block(nextId, shape, paused), status)
    /\ nextId' = nextId + 1
    /\ UNCHANGED <<commanding, firmware, negotiation, normalization, preprocessing,
                   stream, drained,
                   working_sample_rate, channels, chunks, data, buffer,
                   last_voice_time, paused, pc, clock, delivered, cmds,
                   failures,
                   paused_ms>>

\* time passes
Tick ==
    /\ pc \notin {"stopped", "raised"}
    /\ \E d \in Ticks :
          /\ clock + d <= MaxClock
          /\ clock' = clock + d
          /\ paused_ms' = IF paused /\ last_voice_time # None /\ pc # "process"
                          THEN paused_ms + d ELSE paused_ms
    /\ UNCHANGED <<commanding, firmware, negotiation, normalization, preprocessing, stderr,
                   stream, drained,
                   working_sample_rate, channels, audio_queue, chunks, data,
                   buffer, last_voice_time, paused, pc, nextId, delivered,
                   cmds, failures>>

\* the driver reports no overrun or underrun
Push(limit) == Callback(limit, BlockShapes(working_sample_rate), {FALSE})

AudioStreamCallback == Push(MaxBlocks)

AudioStreamCallbackRun == Push(MaxRunBlocks)

-----------------------------------------------------------------------------
(* Consumer thread: AudioCapture.capture *)

\* a variant that puts the dequeued block in front
chunks_prepend(list, block) == <<block>> \o list

\* chunks.append(self.audio_queue.get_nowait())
chunks_append(list, block) == Append(list, block)

\* the ids of the blocks of an array, in the order of the array
IdSeq(a) == [i \in 1..Len(a) |-> a[i].id]

\* read_all: one successful get_nowait()
ReadAllGet ==
    /\ pc = "read_all"
    /\ audio_queue # <<>>
    /\ chunks' = chunks_append(chunks, Head(audio_queue))
    /\ audio_queue' = Tail(audio_queue)
    /\ UNCHANGED <<commanding, firmware, negotiation, normalization, preprocessing, stderr,
                   stream, drained,
                   working_sample_rate, channels, data, buffer,
                   last_voice_time, paused, pc, clock, nextId, delivered,
                   cmds, failures,
                   paused_ms>>

\* read_all: get_nowait() raises queue.Empty; return None or the
\* concatenation.  On None the loop sleeps and polls again.
ReadAllEmpty ==
    /\ pc = "read_all"
    /\ audio_queue = <<>>
    /\ data' = chunks
    /\ chunks' = <<>>
    /\ drained' = drained \o IdSeq(chunks)
    /\ pc' = IF chunks = <<>> THEN "read_all" ELSE "check_paused"
    /\ UNCHANGED <<commanding, firmware, negotiation, normalization, preprocessing, stderr,
                   stream,
                   working_sample_rate, channels, audio_queue, buffer,
                   last_voice_time, paused, clock, nextId, delivered, cmds,
                   failures,
                   paused_ms>>

\* a variant that never looks at the flag
CheckPausedIgnored ==
    /\ pc = "check_paused"
    /\ pc' = "process"
    /\ UNCHANGED <<commanding, firmware, negotiation, normalization, preprocessing, stderr,
                   stream, drained,
                   working_sample_rate, channels, audio_queue, chunks, data,
                   buffer, last_voice_time, paused, clock, nextId, delivered,
                   cmds, failures, paused_ms>>

\* if self.paused: sleep and continue (the drained frame is dropped)
CheckPaused ==
    /\ pc = "check_paused"
    /\ IF paused
       THEN /\ pc' = "read_all"
            /\ data' = <<>>
       ELSE /\ pc' = "process"
            /\ data' = data
    /\ UNCHANGED <<commanding, firmware, negotiation, normalization, preprocessing, stderr,
                   stream, drained,
                   working_sample_rate, channels, audio_queue, chunks, buffer,
                   last_voice_time, paused, clock, nextId, delivered, cmds,
                   failures,
                   paused_ms>>

\* a variant that waits for a second voiced frame before the onset
VoiceTimeDebounced(frame, lvt, now) ==
    IF _is_voice(frame) /\ lvt # None THEN now ELSE lvt

\* a variant in which every frame refreshes the time once voice was detected
VoiceTimeAlways(frame, lvt, now) ==
    IF _is_voice(frame) \/ lvt # None THEN now ELSE lvt

\* lines 176-179: a voiced frame refreshes last_voice_time
VoiceTime(frame, lvt, now) == IF _is_voice(frame) THEN now ELSE lvt

\* a variant that needs more than the threshold
SilenceElapsedStrict(now, lvt) == now - lvt > SILENCE_THRESHOLD_MS

\* lines 184-187: (now - last_voice_time) * 1000 >= SILENCE_THRESHOLD_MS
SilenceElapsed(now, lvt) == now - lvt >= SILENCE_THRESHOLD_MS

\* a variant that keeps the emitted frames
NotCleared(list) == list

\* line 189: buffer.clear()
Cleared(list) == <<>>

\* what audio_callback receives: the preprocessed audio and the literal 16000
Delivery(audio, rate) ==
    [audio |-> _preprocess_audio(RawAudio(audio, rate), rate),
     sample_rate |-> 16000, raw_n |-> Frames(audio)]

\* a variant that classifies and buffers the blocks of a batch one by one
buffer_append_blockwise(buf, frame) ==
    Append(buf, SelectSeq(frame, LAMBDA b : b.e > VAD_THRESHOLD))

\* a variant that buffers voiced frames only
buffer_append_voiced_only(buf, frame) ==
    IF _is_voice(frame) THEN Append(buf, frame) ELSE buf

\* lines 182-185: once voice was detected the frame in hand is appended,
\* before the silence check of line 187
buffer_append(buf, frame) == Append(buf, frame)

\* The body of the capture loop after the pause check (audio_capture.py lines
\* 169-200, sttt.py lines 165-197): VAD, segmenter and the emit transition
\* for one drained frame.  gate_rate is the rate the duration gate is taken at
\* and emit_pc the position at which the segment is handed on.  The two reads of
\* time.monotonic() in one iteration are taken at the same millisecond.
ProcessFrame(at, gate_rate, emit_pc) ==
    /\ pc = at
    /\ LET lvt == VoiceTime(data, last_voice_time, clock)
       IN IF lvt # None
          THEN LET appended == buffer_append(buffer, data)
               IN IF SilenceElapsed(clock, lvt)
                  THEN LET audio == Concatenate(appended)
                       IN /\ buffer' = Cleared(appended)
                          /\ last_voice_time' = None
                          /\ IF _is_min_duration(audio, gate_rate)
                             THEN /\ delivered' = Append(delivered,
                                        Delivery(audio, working_sample_rate))
                                  /\ pc' = emit_pc
                             ELSE /\ delivered' = delivered
                                  /\ pc' = "read_all"
                  ELSE /\ buffer' = appended
                       /\ last_voice_time' = lvt
                       /\ delivered' = delivered
                       /\ pc' = "read_all"
          ELSE /\ UNCHANGED <<buffer, last_voice_time, delivered>>
               /\ pc' = "read_all"
    /\ data' = <<>>
    /\ paused_ms' = IF last_voice_time' = last_voice_time THEN paused_ms ELSE 0
    /\ UNCHANGED <<commanding, firmware, negotiation, normalization, preprocessing, stderr,
                   stream, drained,
                   working_sample_rate, channels, audio_queue, chunks, paused,
                   clock, nextId, cmds, failures>>

\* a variant that hands the segment to a callback run elsewhere and goes on
\* polling
ProcessDetached == ProcessFrame("process", working_sample_rate, "read_all")

\* AudioCapture.capture, lines 169-200: the gate is taken at the capture rate
\* and the segment goes to audio_callback
Process == ProcessFrame("process", working_sample_rate, "callback")

-----------------------------------------------------------------------------
(* The segment callback of chat.py, run on the consumer thread *)

RECURSIVE SeqsUpTo(_, _)
SeqsUpTo(S, n) ==
    IF n = 0 THEN {<<>>}
    ELSE LET shorter == SeqsUpTo(S, n - 1)
         IN shorter \cup {Append(q, x) : q \in shorter, x \in S}

CommandLists == SeqsUpTo({"move", "speak"}, MaxCmds)

\* a variant without the handlers: the exception leaves capture(), which
\* has no handler of its own
ExceptionPropagates == "crashed"

\* except Exception in process_audio and process_gpt_response: the error is
\* printed and the callback returns to the capture loop
AfterException == "read_all"

\* process_audio: an exception of sf.write, chat_with_audio or of the parsing
\* in process_gpt_response is caught inside the callback, which then returns
ProcessAudioFails ==
    /\ pc = "callback"
    /\ failures' = failures + 1
    /\ pc' = AfterException
    /\ UNCHANGED <<commanding, firmware, negotiation, normalization, preprocessing, stderr,
                   stream, drained,
                   working_sample_rate, channels, audio_queue, chunks, data,
                   buffer, last_voice_time, paused, clock, nextId, delivered,
                   cmds,
                   paused_ms>>

\* process_audio -> process_gpt_response: a valid command list was parsed
ProcessGptResponse ==
    /\ pc = "callback"
    /\ cmds' \in CommandLists
    /\ pc' = "execute"
    /\ UNCHANGED <<commanding, firmware, negotiation, normalization, preprocessing, stderr,
                   stream, drained,
                   working_sample_rate, channels, audio_queue, chunks, data,
                   buffer, last_voice_time, paused, clock, nextId, delivered,
                   failures,
                   paused_ms>>

\* the for loop of process_gpt_response is exhausted: the callback returns
CallbackReturns ==
    /\ pc = "execute"
    /\ cmds = <<>>
    /\ pc' = "read_all"
    /\ UNCHANGED <<commanding, firmware, negotiation, normalization, preprocessing, stderr,
                   stream, drained,
                   working_sample_rate, channels, audio_queue, chunks, data,
                   buffer, last_voice_time, paused, clock, nextId, delivered,
                   cmds, failures,
                   paused_ms>>

\* execute_command(MovementCommand): fw.* returns
ExecuteMove ==
    /\ pc = "execute"
    /\ cmds # <<>>
    /\ Head(cmds) = "move"
    /\ cmds' = Tail(cmds)
    /\ UNCHANGED <<commanding, firmware, negotiation, normalization, preprocessing, stderr,
                   stream, drained,
                   working_sample_rate, channels, audio_queue, chunks, data,
                   buffer, last_voice_time, paused, pc, clock, nextId,
                   delivered, failures,
                   paused_ms>>

\* execute_command(MovementCommand): fw.* raises; process_gpt_response
\* catches it and returns, dropping the remaining commands
ExecuteMoveFails ==
    /\ pc = "execute"
    /\ cmds # <<>>
    /\ Head(cmds) = "move"
    /\ cmds' = <<>>
    /\ failures' = failures + 1
    /\ pc' = AfterException
    /\ UNCHANGED <<commanding, firmware, negotiation, normalization, preprocessing, stderr,
                   stream, drained,
                   working_sample_rate, channels, audio_queue, chunks, data,
                   buffer, last_voice_time, paused, clock, nextId, delivered,
                   paused_ms>>

\* execute_command(SpeakCommand): audio_capture.pause(), then tts.speak starts
ExecuteSpeak ==
    /\ pc = "execute"
    /\ cmds # <<>>
    /\ Head(cmds) = "speak"
    /\ paused' = TRUE
    /\ pc' = "speak"
    /\ UNCHANGED <<commanding, firmware, negotiation, normalization, preprocessing, stderr,
                   stream, drained,
                   working_sample_rate, channels, audio_queue, chunks, data,
                   buffer, last_voice_time, clock, nextId, delivered, cmds,
                   failures,
                   paused_ms>>

\* tts.speak returns (it catches its own errors); finally: resume()
TtsSpeakReturns ==
    /\ pc = "speak"
    /\ paused' = FALSE
    /\ cmds' = Tail(cmds)
    /\ pc' = "execute"
    /\ UNCHANGED <<commanding, firmware, negotiation, normalization, preprocessing, stderr,
                   stream, drained,
                   working_sample_rate, channels, audio_queue, chunks, data,
                   buffer, last_voice_time, clock, nextId, delivered,
                   failures,
                   paused_ms>>

-----------------------------------------------------------------------------
(* Other threads *)

\* a variant of pause() that also drops the utterance in progress
PauseFlushing ==
    /\ pc # "stopped"
    /\ paused' = TRUE
    /\ buffer' = <<>>
    /\ last_voice_time' = None
    /\ UNCHANGED <<commanding, firmware, negotiation, normalization, preprocessing, stderr,
                   stream, drained,
                   working_sample_rate, channels, audio_queue, chunks, data,
                   pc, clock, nextId, delivered, cmds, failures,
                   paused_ms>>

\* AudioCapture.pause() called from another thread
Pause ==
    /\ pc # "stopped"
    /\ paused' = TRUE
    /\ UNCHANGED <<commanding, firmware, negotiation, normalization, preprocessing, stderr,
                   stream, drained,
                   working_sample_rate, channels, audio_queue, chunks, data,
                   buffer, last_voice_time, pc, clock, nextId, delivered,
                   cmds, failures,
                   paused_ms>>

\* AudioCapture.resume() called from another thread
Resume ==
    /\ pc # "stopped"
    /\ paused' = FALSE
    /\ UNCHANGED <<commanding, firmware, negotiation, normalization, preprocessing, stderr,
                   stream, drained,
                   working_sample_rate, channels, audio_queue, chunks, data,
                   buffer, last_voice_time, pc, clock, nextId, delivered,
                   cmds, failures,
                   paused_ms>>

\* a variant of execute_command without the finally clause
execute_command_no_finally(position, flag) == flag

\* chat.py lines 47-50: an exception that leaves tts.speak first runs
\* audio_capture.resume()
execute_command_finally(position, flag) ==
    IF position = "speak" THEN FALSE ELSE flag

\* KeyboardInterrupt ends capture(): raised inside tts.speak it first runs
\* the finally clause of execute_command; the with block closes the stream
\* and the queue, the drained frame and the pending commands are dropped.
\* The buffer is kept as it was when the loop ended.
Stop ==
    /\ pc \notin {"stopped", "raised"}
    /\ paused' = execute_command_finally(pc, paused)
    /\ stream' = FALSE
    /\ drained' = <<>>
    /\ pc' = "stopped"
    /\ audio_queue' = <<>>
    /\ chunks' = <<>>
    /\ data' = <<>>
    /\ cmds' = <<>>
    /\ UNCHANGED <<commanding, firmware, negotiation, normalization, preprocessing, stderr,
                  
                   working_sample_rate, channels, buffer, last_voice_time,
                   clock, nextId, delivered, failures,
                   paused_ms>>

-----------------------------------------------------------------------------

Consumer ==
    \/ ReadAllGet
    \/ ReadAllEmpty
    \/ CheckPaused
    \/ Process
    \/ ProcessAudioFails
    \/ ProcessGptResponse
    \/ CallbackReturns
    \/ ExecuteMove
    \/ ExecuteMoveFails
    \/ ExecuteSpeak
    \/ TtsSpeakReturns

\* chat.py as wired: pause() and resume() are called only by the callback
NextChat == AudioStreamCallback \/ Tick \/ Consumer \/ Stop

SpecChat == InitAnyDevice /\ [][NextChat]_vars

-----------------------------------------------------------------------------
(* The transcription driver loop of lib/sttt.py: SpeechToTextTranscriber.call,
   which has no pause check *)

\* read_all returns: None, or the drained frame
SttReadAllEmpty ==
    /\ pc = "read_all"
    /\ audio_queue = <<>>
    /\ data' = chunks
    /\ chunks' = <<>>
    /\ drained' = drained \o IdSeq(chunks)
    /\ pc' = IF chunks = <<>> THEN "read_all" ELSE "stt_process"
    /\ UNCHANGED <<commanding, firmware, negotiation, normalization, preprocessing, stderr,
                   stream,
                   working_sample_rate, channels, audio_queue, buffer,
                   last_voice_time, paused, clock, nextId, delivered, cmds,
                   failures, paused_ms>>

\* lines 165-197: the gate is taken at self.sample_rate and a segment that
\* passes it goes to _process_audio_segment
SttProcess == ProcessFrame("stt_process", SttGateRate, "transcribe")

\* _process_audio_segment returns a text or None (it catches transcription
\* errors); transcription_callback, if invoked, returns
SttTranscribed ==
    /\ pc = "transcribe"
    /\ pc' = "read_all"
    /\ UNCHANGED <<commanding, firmware, negotiation, normalization, preprocessing, stderr,
                   stream, drained,
                   working_sample_rate, channels, audio_queue, chunks, data,
                   buffer, last_voice_time, paused, clock, nextId, delivered,
                   cmds, failures, paused_ms>>

NextSttt ==
    \/ AudioStreamCallback
    \/ Tick
    \/ ReadAllGet
    \/ SttReadAllEmpty
    \/ SttProcess
    \/ SttTranscribed

SpecSttt == InitAnyDevice /\ [][NextSttt]_vars

-----------------------------------------------------------------------------

\* the end-to-end scenario: a 44100 Hz device delivers 200 ms of noise below
\* the threshold, 600 ms of signal above it and 900 ms of silence, in blocks
\* of 50 ms
Scenario ==
    [rate |-> 44100, noise_ms |-> 200, voice_ms |-> 600, silence_ms |-> 900,
     block_ms |-> 50]

ScenarioBlocks ==
    (Scenario.noise_ms + Scenario.voice_ms + Scenario.silence_ms)
        \div Scenario.block_ms

ScenarioShape(i) ==
    [k |-> IF i * Scenario.block_ms <= Scenario.noise_ms THEN "quiet"
           ELSE IF i * Scenario.block_ms
                     <= Scenario.noise_ms + Scenario.voice_ms THEN "voice"
           ELSE "silence",
     n |-> (Scenario.rate * Scenario.block_ms) \div 1000]

InitE2E == Started([rate |-> Scenario.rate, ch |-> CHANNELS])

\* AudioStream.callback in the scenario: the next block arrives block_ms
\* after the previous one; the loop, which polls every 10 ms, has drained
\* the queue by then unless it is inside the segment callback
FeedScenario ==
    /\ nextId <= ScenarioBlocks
    /\ \/ pc = "read_all" /\ audio_queue = <<>> /\ chunks = <<>>
       \/ pc \in {"callback", "execute", "speak"}
    /\ audio_queue' =
          Append(audio_queue, Block(nextId, ScenarioShape(nextId), paused))
    /\ nextId' = nextId + 1
    /\ clock' = clock + Scenario.block_ms
    /\ UNCHANGED <<commanding, firmware, negotiation, normalization, preprocessing, stderr,
                   stream, drained,
                   working_sample_rate, channels, chunks, data, buffer,
                   last_voice_time, paused, pc, delivered, cmds, failures,
                   paused_ms>>

NextE2E == FeedScenario \/ Consumer

SpecE2E == InitE2E /\ [][NextE2E]_vars

\* chat.py as wired on the default device, over a longer run
NextRun == AudioStreamCallbackRun \/ Tick \/ Consumer \/ Stop

SpecRun == Init /\ [][NextRun]_vars

\* the same, with pause() and resume() also called from another thread
Next == AudioStreamCallback \/ Tick \/ Consumer \/ Stop \/ Pause \/ Resume

Spec == Init /\ [][Next]_vars

\* either loop, AudioCapture.capture or SpeechToTextTranscriber.call: every
\* behaviour of SpecChat and every behaviour of SpecSttt is one of SpecLoops
NextLoops == NextChat \/ NextSttt

SpecLoops == InitAnyDevice /\ [][NextLoops]_vars

-----------------------------------------------------------------------------
(* _preprocess_audio step by step, on an array as the capture loop passes
   it: shape (n, channels), with the peak of each channel, at the capture
   rate *)

\* peaks of a channel, in units of 1e-3
ChannelPeaks == {0, 450, 1000}

PreprocessInputs ==
    {[ndim |-> 2, n |-> MinSamples(r) + d, pk |-> pk, rate |-> r] :
        r \in Rates, d \in {1, 2},
        pk \in {<<a>> : a \in ChannelPeaks}
                 \cup {<<a, b>> : a, b \in ChannelPeaks}}

RECURSIVE MaxOfSeq(_)
MaxOfSeq(q) ==
    IF q = <<>> THEN 0
    ELSE LET r == MaxOfSeq(Tail(q)) IN IF Head(q) > r THEN Head(q) ELSE r

\* _ensure_mono: audio[:, 0] of a 2-D array
_ensure_mono_channels(x) ==
    IF x.ndim = 2 THEN [x EXCEPT !.ndim = 1, !.pk = <<x.pk[1]>>] ELSE x

\* _normalize_audio: the peak is taken over the whole array
_normalize_audio_channels(x) ==
    LET max_val == MaxOfSeq(x.pk)
    IN [x EXCEPT !.pk = [i \in 1..Len(x.pk) |->
                            Clip(IF max_val > 0
                                 THEN (x.pk[i] * GAIN_TARGET) \div max_val
                                 ELSE x.pk[i])]]

\* a variant that normalizes before the mono reduction
PreprocessOrderNormalizeFirst == <<"normalize", "ensure_mono", "resample">>

\* lines 109-111, in the order of the statements
PreprocessOrder == <<"ensure_mono", "normalize", "resample">>

\* the position after a step
AfterStep(step) ==
    LET k == CHOOSE i \in 1..Len(PreprocessOrder) : PreprocessOrder[i] = step
    IN IF k = Len(PreprocessOrder) THEN "preprocessed"
       ELSE PreprocessOrder[k + 1]

\* the array a step reads: the argument at the first step, mono afterwards
StepInput == IF pc = PreprocessOrder[1] THEN audio_in ELSE mono

InitPreprocess ==
    /\ audio_in \in PreprocessInputs
    /\ mono = <<>>
    /\ pc = PreprocessOrder[1]
    /\ working_sample_rate = audio_in.rate
    /\ channels = Len(audio_in.pk)
    /\ samples = <<>>
    /\ normalized = <<>>
    /\ stderr = 0
    /\ NoResponse
    /\ Imported("lgpio")
    /\ audio_queue = <<>>
    /\ chunks = <<>>
    /\ data = <<>>
    /\ buffer = <<>>
    /\ last_voice_time = None
    /\ paused = FALSE
    /\ clock = 0
    /\ nextId = 1
    /\ delivered = <<>>
    /\ cmds = <<>>
    /\ failures = 0
    /\ paused_ms = 0
    /\ valid = {audio_in.rate}
    /\ probes = Probed(audio_in.rate)
    /\ stream = FALSE
    /\ drained = <<>>

\* one statement of _preprocess_audio: mono is assigned the result of f
PreprocessStatement(step, result) ==
    /\ pc = step
    /\ mono' = result
    /\ pc' = AfterStep(step)
    /\ UNCHANGED <<commanding, firmware, negotiation, normalization, audio_in, stderr, stream,
                   drained, working_sample_rate, channels, audio_queue,
                   chunks, data, buffer, last_voice_time, paused, clock,
                   nextId, delivered, cmds, failures, paused_ms>>

\* line 109
EnsureMonoStep ==
    PreprocessStatement("ensure_mono", _ensure_mono_channels(StepInput))

\* line 110
NormalizeStep ==
    PreprocessStatement("normalize", _normalize_audio_channels(StepInput))

\* line 111
ResampleStep ==
    PreprocessStatement("resample",
                        _resample_to_16k(StepInput, working_sample_rate))

NextPreprocess == EnsureMonoStep \/ NormalizeStep \/ ResampleStep

SpecPreprocess == InitPreprocess /\ [][NextPreprocess]_vars

-----------------------------------------------------------------------------
(* The loop of stt_mic.py: process_audio_stream, on a stream opened at
   SAMPLE_RATE without negotiation *)

\* VAD_THRESHOLD of stt_mic.py, 0.05, in units of 1e-4
MIC_VAD_THRESHOLD == 500

\* stt_mic.is_voice
is_voice(a) == SumAbs(a) > MIC_VAD_THRESHOLD * Frames(a)

\* stt_mic.is_min_duration: the rate is the constant SAMPLE_RATE
is_min_duration(a) == Frames(a) > MinSamples(SAMPLE_RATE)

\* stt_mic.ensure_mono
ensure_mono(x) == [x EXCEPT !.ch = 1]

\* stt_mic.normalize_audio: np.clip(np.nan_to_num(audio), -1.0, 1.0)
normalize_audio(x) == [x EXCEPT !.pk = Clip(x.pk)]

\* what process_audio_segment hands to model.transcribe
MicDelivery(segment) ==
    [audio |-> normalize_audio(ensure_mono(RawAudio(segment, SAMPLE_RATE))),
     sample_rate |-> SAMPLE_RATE, raw_n |-> Frames(segment)]

MicShapes ==
    {[k |-> "loud", n |-> 1],
     [k |-> "loud", n |-> MinSamples(SAMPLE_RATE)],
     [k |-> "quiet", n |-> 1]}

AudioStreamCallbackMic == Callback(MaxRunBlocks, MicShapes, {FALSE})

\* read_all returns: None, or the drained frame
MicReadAllEmpty ==
    /\ pc = "read_all"
    /\ audio_queue = <<>>
    /\ data' = chunks
    /\ chunks' = <<>>
    /\ drained' = drained \o IdSeq(chunks)
    /\ pc' = IF chunks = <<>> THEN "read_all" ELSE "mic_process"
    /\ UNCHANGED <<commanding, firmware, negotiation, normalization, preprocessing, stderr, stream,
                   working_sample_rate, channels, audio_queue, buffer,
                   last_voice_time, paused, clock, nextId, delivered, cmds,
                   failures, paused_ms>>

\* lines 100-120: the frame is appended first; the buffer is cleared and the
\* voice detection reset only when the segment is long enough to be processed
ProcessAudioStream ==
    /\ pc = "mic_process"
    /\ LET appended == Append(buffer, data)
           lvt      == IF is_voice(data) THEN clock ELSE last_voice_time
           segment  == Concatenate(appended)
       IN IF /\ lvt # None
             /\ SilenceElapsed(clock, lvt)
             /\ is_min_duration(segment)
          THEN /\ buffer' = <<>>
               /\ last_voice_time' = None
               /\ delivered' = Append(delivered, MicDelivery(segment))
               /\ pc' = "mic_transcribe"
          ELSE /\ buffer' = appended
               /\ last_voice_time' = lvt
               /\ delivered' = delivered
               /\ pc' = "read_all"
    /\ data' = <<>>
    /\ UNCHANGED <<commanding, firmware, negotiation, normalization, preprocessing, stderr, stream,
                   drained, working_sample_rate, channels, audio_queue,
                   chunks, paused, clock, nextId, cmds, failures, paused_ms>>

\* process_audio_segment returns a text or None (it catches transcription
\* errors)
MicTranscribed ==
    /\ pc = "mic_transcribe"
    /\ pc' = "read_all"
    /\ UNCHANGED <<commanding, firmware, negotiation, normalization, preprocessing, stderr, stream,
                   drained, working_sample_rate, channels, audio_queue,
                   chunks, data, buffer, last_voice_time, paused, clock,
                   nextId, delivered, cmds, failures, paused_ms>>

NextMic ==
    \/ AudioStreamCallbackMic
    \/ Tick
    \/ ReadAllGet
    \/ MicReadAllEmpty
    \/ ProcessAudioStream
    \/ MicTranscribed

SpecMic == Init /\ [][NextMic]_vars

-----------------------------------------------------------------------------
(* The capture loop with a driver that may report an overrun or underrun
   with any block *)

AudioStreamCallbackStatus ==
    Callback(MaxBlocks, BlockShapes(working_sample_rate), BOOLEAN)

NextStatus == AudioStreamCallbackStatus \/ Tick \/ Consumer \/ Stop

SpecStatus == Init /\ [][NextStatus]_vars

-----------------------------------------------------------------------------
(* The capture loop on blocks whose mean absolute amplitude is at, just
   above and just below the threshold: VAD and segmenter only, no block is
   long enough for a segment to be delivered *)

EdgeShapes ==
    {[k |-> "above", n |-> 1], [k |-> "edge", n |-> 1],
     [k |-> "below", n |-> 1], [k |-> "above", n |-> 2]}

AudioStreamCallbackEdge == Callback(MaxBlocks, EdgeShapes, {FALSE})

NextVad ==
    \/ AudioStreamCallbackEdge
    \/ Tick
    \/ ReadAllGet
    \/ ReadAllEmpty
    \/ CheckPaused
    \/ Process

SpecVad == Init /\ [][NextVad]_vars

-----------------------------------------------------------------------------
(* capture() from its first line: rate negotiation, then the stream and the
   loop *)

\* a variant that tries the candidates from the last to the first
CandidateReversed(i) ==
    FALLBACK_SAMPLE_RATES[Len(FALLBACK_SAMPLE_RATES) + 1 - i]

\* for rate in FALLBACK_SAMPLE_RATES: the rate of the i-th turn of the loop
Candidate(i) == FALLBACK_SAMPLE_RATES[i]

\* a variant that goes on to open the stream
FallBackToDefault == "open_stream"

\* line 126: raise RuntimeError, which capture() and its caller do not catch
NoSupportedRate == "raised"

\* capture() is called on a device that validates at the rates V
Opening(V) ==
    /\ working_sample_rate = None
    /\ channels = CHANNELS
    /\ audio_queue = <<>>
    /\ chunks = <<>>
    /\ data = <<>>
    /\ buffer = <<>>
    /\ last_voice_time = None
    /\ paused = FALSE
    /\ pc = "negotiate"
    /\ clock = 0
    /\ nextId = 1
    /\ delivered = <<>>
    /\ cmds = <<>>
    /\ failures = 0
    /\ paused_ms = 0
    /\ valid = V
    /\ probes = <<>>
    /\ stream = FALSE
    /\ drained = <<>>
    /\ samples = <<>>
    /\ normalized = <<>>
    /\ audio_in = <<>>
    /\ mono = <<>>
    /\ stderr = 0
    /\ NoResponse
    /\ Imported("lgpio")

InitCapture == \E V \in SUBSET Rates : Opening(V)

\* one turn of the for loop: sd.check_input_settings either returns, and the
\* rate is returned, or raises PortAudioError, and the loop continues
CheckInputSettings ==
    /\ pc = "negotiate"
    /\ Len(probes) < Len(FALLBACK_SAMPLE_RATES)
    /\ LET rate == Candidate(Len(probes) + 1)
       IN /\ probes' = Append(probes, rate)
          /\ IF rate \in valid
             THEN /\ working_sample_rate' = rate
                  /\ pc' = "open_stream"
             ELSE UNCHANGED <<working_sample_rate, pc>>
    /\ UNCHANGED <<commanding, firmware, valid, normalization, preprocessing, stderr,
                   stream, drained, channels,
                   audio_queue, chunks, data, buffer, last_voice_time, paused,
                   clock, nextId, delivered, cmds, failures, paused_ms>>

\* the for loop is exhausted
RaiseNoSupportedRate ==
    /\ pc = "negotiate"
    /\ Len(probes) = Len(FALLBACK_SAMPLE_RATES)
    /\ pc' = NoSupportedRate
    /\ UNCHANGED <<commanding, firmware, negotiation, normalization, preprocessing, stderr,
                   stream, drained,
                   working_sample_rate, channels, audio_queue, chunks, data,
                   buffer, last_voice_time, paused, clock, nextId, delivered,
                   cmds, failures, paused_ms>>

\* lines 146-157: the with block of sd.InputStream is entered
OpenStream ==
    /\ pc = "open_stream"
    /\ stream' = TRUE
    /\ pc' = "read_all"
    /\ UNCHANGED <<commanding, firmware, negotiation, normalization, preprocessing, stderr,
                   drained, working_sample_rate,
                   channels, audio_queue, chunks, data, buffer,
                   last_voice_time, paused, clock, nextId, delivered, cmds,
                   failures, paused_ms>>

NextCapture ==
    \/ CheckInputSettings
    \/ RaiseNoSupportedRate
    \/ OpenStream
    \/ AudioStreamCallback
    \/ Tick
    \/ Consumer
    \/ Stop

SpecCapture == InitCapture /\ [][NextCapture]_vars

-----------------------------------------------------------------------------
(* _normalize_audio on the samples of an array.  A sample is a float32: a
   number, in units of 1e-3, or NaN, +inf or -inf. *)

Num(v) == [k |-> "num", v |-> v]

NaN == [k |-> "nan", v |-> 0]

PosInf == [k |-> "inf", v |-> 0]

NegInf == [k |-> "ninf", v |-> 0]

\* stands for np.finfo(np.float32).max, 3.4e38: a number so far above the
\* samples of a device, which lie in [-1.0, 1.0], that a sample divided by
\* it is 0 at the precision of the model
FloatMax == 2000000

\* the samples an array is made of
SampleValues == {NaN, PosInf, NegInf, Num(0), Num(450), Num(-450), Num(150)}

Abs(v) == IF v < 0 THEN -v ELSE v

\* integer quotient rounded toward zero
Quot(a, b) == IF a < 0 THEN -((-a) \div b) ELSE a \div b

\* np.nan_to_num with its defaults: NaN becomes 0.0, +inf the largest and
\* -inf the most negative finite float
nan_to_num(x) ==
    IF x.k = "nan" THEN Num(0)
    ELSE IF x.k = "inf" THEN Num(FloatMax)
    ELSE IF x.k = "ninf" THEN Num(-FloatMax)
    ELSE x

RECURSIVE abs_max(_)
\* np.abs(audio).max() of an array of numbers
abs_max(a) ==
    IF a = <<>> THEN 0
    ELSE LET r == abs_max(Tail(a))
         IN IF Abs(Head(a).v) > r THEN Abs(Head(a).v) ELSE r

\* x / max_val * 0.9 in float arithmetic: a division by zero gives NaN or an
\* infinity, it does not raise
Scale(x, max_val) ==
    IF max_val = 0
    THEN IF x.v = 0 THEN NaN ELSE IF x.v > 0 THEN PosInf ELSE NegInf
    ELSE Num(Quot(x.v * GAIN_TARGET, max_val))

\* a variant without the test of max_val
auto_gain_unguarded(a) == [i \in 1..Len(a) |-> Scale(a[i], abs_max(a))]

\* lines 91-93: if max_val > 0: audio = audio / max_val * 0.9
auto_gain(a) ==
    LET max_val == abs_max(a)
    IN IF max_val > 0 THEN [i \in 1..Len(a) |-> Scale(a[i], max_val)] ELSE a

\* np.clip(x, -1.0, 1.0) of one sample: NaN stays NaN
np_clip(x) ==
    IF x.k = "nan" THEN x
    ELSE IF x.k = "inf" THEN Num(CLIP_BOUND)
    ELSE IF x.k = "ninf" THEN Num(-CLIP_BOUND)
    ELSE IF x.v > CLIP_BOUND THEN Num(CLIP_BOUND)
    ELSE IF x.v < -CLIP_BOUND THEN Num(-CLIP_BOUND)
    ELSE x

\* _normalize_audio, sample by sample
_normalize_audio_samples(a) ==
    LET scrubbed == [i \in 1..Len(a) |-> nan_to_num(a[i])]
        gained   == auto_gain(scrubbed)
    IN [i \in 1..Len(a) |-> np_clip(gained[i])]

\* _normalize_audio is called on a non-empty array
InitNormalize ==
    /\ samples \in SeqsUpTo(SampleValues, MaxSamples) \ {<<>>}
    /\ normalized = <<>>
    /\ audio_in = <<>>
    /\ mono = <<>>
    /\ stderr = 0
    /\ NoResponse
    /\ Imported("lgpio")
    /\ pc = "normalize"
    /\ working_sample_rate = SAMPLE_RATE
    /\ channels = CHANNELS
    /\ audio_queue = <<>>
    /\ chunks = <<>>
    /\ data = <<>>
    /\ buffer = <<>>
    /\ last_voice_time = None
    /\ paused = FALSE
    /\ clock = 0
    /\ nextId = 1
    /\ delivered = <<>>
    /\ cmds = <<>>
    /\ failures = 0
    /\ paused_ms = 0
    /\ valid = {SAMPLE_RATE}
    /\ probes = <<>>
    /\ stream = FALSE
    /\ drained = <<>>

\* the call returns
NormalizeAudio ==
    /\ pc = "normalize"
    /\ normalized' = _normalize_audio_samples(samples)
    /\ pc' = "normalized"
    /\ UNCHANGED <<commanding, firmware, negotiation, samples, preprocessing, stderr, stream, drained, working_sample_rate,
                   channels, audio_queue, chunks, data, buffer,
                   last_voice_time, paused, clock, nextId, delivered, cmds,
                   failures, paused_ms>>

NextNormalize == NormalizeAudio

SpecNormalize == InitNormalize /\ [][NextNormalize]_vars

-----------------------------------------------------------------------------
(* chat.process_gpt_response on one response, command by command.  A response
   is a string that json.loads rejects, or a JSON list of objects. *)

\* elements of a response
MaxResponse == 3

\* models.py lines 8-11: command is one of four literals and ms >= 0
MovementCommand(e) ==
    /\ e.command \in {"forward", "backward", "left", "right"}
    /\ "ms" \in DOMAIN e
    /\ e.ms >= 0

\* models.py lines 14-17: command is "speak" and body has min_length 1
SpeakCommand(e) ==
    /\ e.command = "speak"
    /\ "body" \in DOMAIN e
    /\ e.body # ""

\* models.py lines 21-25: every element of the list is one of the two
CommandList(root) ==
    \A i \in 1..Len(root) : MovementCommand(root[i]) \/ SpeakCommand(root[i])

\* objects a response may hold: three that validate and three that do not
Elements ==
    {[command |-> "forward", ms |-> 500],
     [command |-> "left", ms |-> 0],
     [command |-> "speak", body |-> "hi"],
     [command |-> "backward", ms |-> -1],
     [command |-> "speak", body |-> ""],
     [command |-> "jump", ms |-> 500]}

Responses ==
    {[json |-> FALSE, root |-> <<>>]}
        \cup {[json |-> TRUE, root |-> r] : r \in SeqsUpTo(Elements, MaxResponse)}

\* fw.start() has run, as in chat.main before any command
FirmwareStarted(lib) ==
    /\ lgpio = lib
    /\ h = 4
    /\ opened = 1
    /\ start_calls = 1
    /\ level = [pin \in DirPins |-> 0]
    /\ duty = [pin \in PwmPins |-> 0]

\* process_gpt_response is entered with a response
InitCommands ==
    /\ response \in Responses
    /\ executed = <<>>
    /\ pc = "process_gpt_response"
    /\ FirmwareStarted("lgpio")
    /\ working_sample_rate = SAMPLE_RATE
    /\ channels = CHANNELS
    /\ audio_queue = <<>>
    /\ chunks = <<>>
    /\ data = <<>>
    /\ buffer = <<>>
    /\ last_voice_time = None
    /\ paused = FALSE
    /\ clock = 0
    /\ nextId = 1
    /\ delivered = <<>>
    /\ cmds = <<>>
    /\ failures = 0
    /\ paused_ms = 0
    /\ valid = {SAMPLE_RATE}
    /\ probes = Probed(SAMPLE_RATE)
    /\ stream = TRUE
    /\ drained = <<>>
    /\ samples = <<>>
    /\ normalized = <<>>
    /\ audio_in = <<>>
    /\ mono = <<>>
    /\ stderr = 0

\* a variant that hands the decoded list to the loop without validating it
ParseResponseUnvalidated ==
    /\ pc = "process_gpt_response"
    /\ IF response.json
       THEN /\ cmds' = response.root
            /\ pc' = "for_cmd"
            /\ failures' = failures
       ELSE /\ cmds' = <<>>
            /\ pc' = "returned"
            /\ failures' = failures + 1
    /\ UNCHANGED <<commanding, firmware, negotiation, normalization,
                   preprocessing, stderr, stream, drained,
                   working_sample_rate, channels, audio_queue, chunks, data,
                   buffer, last_voice_time, paused, clock, nextId, delivered,
                   paused_ms>>

\* lines 57-58 and 68-71: json.loads, then CommandList(root=...) validates
\* the whole list; JSONDecodeError and ValidationError are printed and the
\* function returns
ParseResponse ==
    /\ pc = "process_gpt_response"
    /\ IF response.json /\ CommandList(response.root)
       THEN /\ cmds' = response.root
            /\ pc' = "for_cmd"
            /\ failures' = failures
       ELSE /\ cmds' = <<>>
            /\ pc' = "returned"
            /\ failures' = failures + 1
    /\ UNCHANGED <<commanding, firmware, negotiation, normalization,
                   preprocessing, stderr, stream, drained,
                   working_sample_rate, channels, audio_queue, chunks, data,
                   buffer, last_voice_time, paused, clock, nextId, delivered,
                   paused_ms>>

\* lines 61-66: execute_command(cmd) returns.  A movement leaves the lines
\* as fw.stop() sets them, which is how they were; a speak command has
\* paused and resumed the capture.
ExecuteCommand ==
    /\ pc = "for_cmd"
    /\ cmds # <<>>
    /\ executed' = Append(executed, Head(cmds))
    /\ cmds' = Tail(cmds)
    /\ paused' = IF Head(cmds).command = "speak" THEN FALSE ELSE paused
    /\ UNCHANGED <<response, firmware, negotiation, normalization,
                   preprocessing, stderr, stream, drained,
                   working_sample_rate, channels, audio_queue, chunks, data,
                   buffer, last_voice_time, pc, clock, nextId, delivered,
                   failures, paused_ms>>

\* lines 66 and 72-73: a movement raises (an lgpio error on its first
\* write); except Exception prints it and the function returns, the rest of
\* the list unexecuted
ExecuteCommandRaises ==
    /\ pc = "for_cmd"
    /\ cmds # <<>>
    /\ Head(cmds).command # "speak"
    /\ executed' = Append(executed, Head(cmds))
    /\ cmds' = <<>>
    /\ failures' = failures + 1
    /\ pc' = "returned"
    /\ UNCHANGED <<response, firmware, negotiation, normalization,
                   preprocessing, stderr, stream, drained,
                   working_sample_rate, channels, audio_queue, chunks, data,
                   buffer, last_voice_time, paused, clock, nextId, delivered,
                   paused_ms>>

\* the for loop is exhausted
CommandsDone ==
    /\ pc = "for_cmd"
    /\ cmds = <<>>
    /\ pc' = "returned"
    /\ UNCHANGED <<commanding, firmware, negotiation, normalization,
                   preprocessing, stderr, stream, drained,
                   working_sample_rate, channels, audio_queue, chunks, data,
                   buffer, last_voice_time, paused, clock, nextId, delivered,
                   cmds, failures, paused_ms>>

NextCommands ==
    ParseResponse \/ ExecuteCommand \/ ExecuteCommandRaises \/ CommandsDone

SpecCommands == InitCommands /\ [][NextCommands]_vars

-----------------------------------------------------------------------------
(* lib/firmware (the package, which import lib.firmware binds): start, stop,
   the four movements and the cleanup at exit, called in any order.  Without
   the lgpio package the module runs on lgpio_mock, whose calls accept any
   handle; the calls of lgpio itself raise on the handle None. *)

\* calls of start() in a run
MaxStarts == 3

\* pw=50, the default of the movement functions
DefaultPw == 50

Libraries == {"lgpio", "lgpio_mock"}

InitFirmware ==
    /\ \E lib \in Libraries : Imported(lib)
    /\ NoResponse
    /\ pc = "idle"
    /\ working_sample_rate = SAMPLE_RATE
    /\ channels = CHANNELS
    /\ audio_queue = <<>>
    /\ chunks = <<>>
    /\ data = <<>>
    /\ buffer = <<>>
    /\ last_voice_time = None
    /\ paused = FALSE
    /\ clock = 0
    /\ nextId = 1
    /\ delivered = <<>>
    /\ cmds = <<>>
    /\ failures = 0
    /\ paused_ms = 0
    /\ valid = {SAMPLE_RATE}
    /\ probes = Probed(SAMPLE_RATE)
    /\ stream = TRUE
    /\ drained = <<>>
    /\ samples = <<>>
    /\ normalized = <<>>
    /\ audio_in = <<>>
    /\ mono = <<>>
    /\ stderr = 0

Low == [pin \in DirPins |-> 0]

Off == [pin \in PwmPins |-> 0]

\* the four gpio_write calls of _set_motors
Levels(pin17, pin22, pin23, pin24) ==
    [pin \in DirPins |->
        IF pin = 17 THEN pin17
        ELSE IF pin = 22 THEN pin22
        ELSE IF pin = 23 THEN pin23
        ELSE pin24]

\* lines 16-31: if h is None, open the chip and claim the six pins as
\* outputs (at level 0)
start ==
    /\ pc = "idle"
    /\ start_calls < MaxStarts
    /\ start_calls' = start_calls + 1
    /\ IF h = None
       THEN /\ h' = 4
            /\ opened' = opened + 1
            /\ level' = Low
            /\ duty' = Off
       ELSE UNCHANGED <<h, opened, level, duty>>
    /\ UNCHANGED <<commanding, lgpio, negotiation, normalization,
                   preprocessing, stderr, stream, drained,
                   working_sample_rate, channels, audio_queue, chunks, data,
                   buffer, last_voice_time, paused, pc, clock, nextId,
                   delivered, cmds, failures, paused_ms>>

\* lines 33-39: stop() writes only if h is not None
stop_level(handle, lv) == IF handle # None THEN Low ELSE lv

stop_duty(handle, dc) == IF handle # None THEN Off ELSE dc

stop ==
    /\ pc = "idle"
    /\ level' = stop_level(h, level)
    /\ duty' = stop_duty(h, duty)
    /\ UNCHANGED <<commanding, h, opened, start_calls, lgpio, negotiation,
                   normalization, preprocessing, stderr, stream, drained,
                   working_sample_rate, channels, audio_queue, chunks, data,
                   buffer, last_voice_time, paused, pc, clock, nextId,
                   delivered, cmds, failures, paused_ms>>

\* lines 49-58 and the call of time.sleep: _set_motors writes the four
\* levels and the duty through the global h, without testing it.  On h = None
\* lgpio raises at the first write, which leaves the movement with nothing
\* changed; lgpio_mock accepts the writes.
Movement(pin17, pin22, pin23, pin24, pw) ==
    /\ pc = "idle"
    /\ IF h = None /\ lgpio = "lgpio"
       THEN UNCHANGED <<level, duty, pc>>
       ELSE /\ level' = Levels(pin17, pin22, pin23, pin24)
            /\ duty' = [pin \in PwmPins |-> pw]
            /\ pc' = "sleep"
    /\ UNCHANGED <<commanding, h, opened, start_calls, lgpio, negotiation,
                   normalization, preprocessing, stderr, stream, drained,
                   working_sample_rate, channels, audio_queue, chunks, data,
                   buffer, last_voice_time, paused, clock, nextId, delivered,
                   cmds, failures, paused_ms>>

\* power the caller passes: the default, or full power
Powers == {DefaultPw, 100}

\* lines 60-82
forward == \E pw \in Powers : Movement(0, 1, 0, 1, pw)

left_turn == \E pw \in Powers : Movement(0, 1, 1, 0, pw)

reverse == \E pw \in Powers : Movement(1, 0, 1, 0, pw)

right_turn == \E pw \in Powers : Movement(1, 0, 0, 1, pw)

\* time.sleep(sec) returns; stop(); the movement returns
SleepReturns ==
    /\ pc = "sleep"
    /\ level' = stop_level(h, level)
    /\ duty' = stop_duty(h, duty)
    /\ pc' = "idle"
    /\ UNCHANGED <<commanding, h, opened, start_calls, lgpio, negotiation,
                   normalization, preprocessing, stderr, stream, drained,
                   working_sample_rate, channels, audio_queue, chunks, data,
                   buffer, last_voice_time, paused, clock, nextId, delivered,
                   cmds, failures, paused_ms>>

\* time.sleep(sec) is left by KeyboardInterrupt: stop() is not reached
SleepInterrupted ==
    /\ pc = "sleep"
    /\ pc' = "interrupted"
    /\ UNCHANGED <<commanding, firmware, negotiation, normalization,
                   preprocessing, stderr, stream, drained,
                   working_sample_rate, channels, audio_queue, chunks, data,
                   buffer, last_voice_time, paused, clock, nextId, delivered,
                   cmds, failures, paused_ms>>

\* lines 41-47, registered with atexit by the start() that opened the chip:
\* stop(), close the chip, h = None
_cleanup ==
    /\ pc \in {"idle", "interrupted"}
    /\ pc' = "exited"
    /\ level' = stop_level(h, level)
    /\ duty' = stop_duty(h, duty)
    /\ h' = None
    /\ UNCHANGED <<commanding, opened, start_calls, lgpio, negotiation,
                   normalization, preprocessing, stderr, stream, drained,
                   working_sample_rate, channels, audio_queue, chunks, data,
                   buffer, last_voice_time, paused, clock, nextId, delivered,
                   cmds, failures, paused_ms>>

NextFirmware ==
    \/ start
    \/ stop
    \/ forward
    \/ left_turn
    \/ reverse
    \/ right_turn
    \/ SleepReturns
    \/ SleepInterrupted
    \/ _cleanup

SpecFirmware == InitFirmware /\ [][NextFirmware]_vars

-----------------------------------------------------------------------------
(* The capture loop under fair scheduling.  The driver delivers one voiced
   block and then unvoiced blocks, one every block_ms; another thread may
   call pause() until the block numbered pause_until has been delivered, and
   resume() at any time; a block after that one is delivered only once the
   flag is clear, which is what "the flag is not paused forever and the
   producer keeps delivering" comes to in a finite run. *)

Live ==
    [rate |-> SAMPLE_RATE, block_ms |-> SILENCE_THRESHOLD_MS \div 2,
     blocks |-> 5, pause_until |-> 3]

LiveShape(i) ==
    [k |-> IF i = 1 THEN "voice" ELSE "quiet",
     n |-> (Live.rate * Live.block_ms) \div 1000]

InitLive == Started([rate |-> Live.rate, ch |-> CHANNELS])

\* AudioStream.callback at the cadence of the hardware: the loop, which
\* polls every 10 ms, has drained the queue before the next block arrives,
\* unless it is inside the segment callback
FeedLive ==
    /\ nextId <= Live.blocks
    /\ stream
    /\ nextId > Live.pause_until => ~paused
    /\ \/ pc = "read_all" /\ audio_queue = <<>> /\ chunks = <<>>
       \/ pc \in {"callback", "execute", "speak"}
    /\ audio_queue' =
          Append(audio_queue, Block(nextId, LiveShape(nextId), paused))
    /\ nextId' = nextId + 1
    /\ clock' = clock + Live.block_ms
    /\ UNCHANGED <<commanding, firmware, negotiation, normalization, preprocessing, stderr, stream,
                   drained, working_sample_rate, channels, chunks, data,
                   buffer, last_voice_time, paused, pc, delivered, cmds,
                   failures, paused_ms>>

\* pause() from another thread, during the first blocks
PauseEarly == nextId <= Live.pause_until /\ Pause

NextLive == FeedLive \/ Consumer \/ PauseEarly \/ Resume

\* the consumer thread runs whenever it can, so every callback returns; the
\* driver delivers; a set flag is eventually cleared
SpecLive ==
    /\ InitLive
    /\ [][NextLive]_vars
    /\ WF_vars(Consumer)
    /\ WF_vars(FeedLive)
    /\ WF_vars(Resume)

-----------------------------------------------------------------------------
(* Vocabulary of the properties *)

\* the segmenter states of the capture loop
Voiced == last_voice_time # None

Idle == last_voice_time = None

\* a step of the capture loop that runs lines 169-200 on the drained frame
ProcessStep == pc = "process" /\ pc' \in {"read_all", "callback"}

\* a step of the capture loop that takes the emit transition
EmitStep == ProcessStep /\ (Voiced \/ _is_voice(data)) /\ last_voice_time' = None

\* the blocks the segmenter has seen: under VAD, buffered or delivered
Heard ==
    (IF pc = "process" THEN data ELSE <<>>)
        \o Concatenate(buffer)
        \o Concatenate([i \in 1..Len(delivered) |-> delivered[i].audio.blocks])

-----------------------------------------------------------------------------
(* C1 *)

\* C1: no block that the driver pushed while the pause flag was set is ever
\* passed to _is_voice, appended to the buffer or part of a delivered segment.
C1_PausedBlocksDropped == \A i \in 1..Len(Heard) : ~Heard[i].dp

-----------------------------------------------------------------------------
(* C2 *)

\* C2: a loop iteration that observes paused = TRUE leaves the buffer and
\* last_voice_time as they were and delivers nothing, whatever the energy of
\* the drained frame: the frame is dropped and the loop polls again.
C2_PauseSuppressesAccumulation ==
    [][(pc = "check_paused" /\ paused /\ pc' # pc /\ pc' # "stopped")
         => /\ pc' = "read_all"
            /\ buffer' = buffer
            /\ last_voice_time' = last_voice_time
            /\ delivered' = delivered]_vars

\* a voiced frame is drained while paused, with an utterance in progress
C2_Witness ==
    /\ pc = "read_all"
    /\ paused
    /\ buffer # <<>>
    /\ \E i \in 1..MaxBlocks :
          /\ i < nextId
          /\ i \notin Ids(Concatenate(buffer)) \cup Ids(audio_queue \o chunks)
    /\ delivered = <<>>

-----------------------------------------------------------------------------
(* C3 *)

\* C3: time spent paused does not count toward the silence threshold: when
\* a frame pushed and drained outside a pause takes the emit transition,
\* 800 ms or more have passed since the last voiced frame without counting
\* the time during which the flag was set.
C3_PausedTimeNotCounted ==
    [][(EmitStep /\ \A i \in 1..Len(data) : ~data[i].dp)
         => (clock - last_voice_time) - paused_ms >= 800]_vars

-----------------------------------------------------------------------------
(* C4 *)

\* C4: when a frame is processed while Voiced, a gap of less than 800 ms
\* since the last voiced frame keeps the state Voiced with the frame
\* appended, and a gap of 800 ms or more empties the buffer and returns to
\* Idle.  A voiced frame is itself the last voiced frame: its gap is 0.
C4_SilenceThresholdBoundary ==
    [][(ProcessStep /\ (Voiced \/ _is_voice(data)))
         => LET gap == IF _is_voice(data) THEN 0 ELSE clock - last_voice_time
            IN IF gap < 800
               THEN /\ last_voice_time' # None
                    /\ buffer' = Append(buffer, data)
                    /\ delivered' = delivered
               ELSE /\ last_voice_time' = None
                    /\ buffer' = <<>>]_vars

\* an unvoiced frame was processed 799 ms after the last voiced frame and
\* the segmenter is still Voiced, holding both frames
C4_Witness ==
    /\ pc = "read_all"
    /\ Voiced
    /\ clock - last_voice_time = 799
    /\ Len(buffer) = 2
    /\ ~_is_voice(buffer[2])

-----------------------------------------------------------------------------
(* C5 *)

\* duration in ms of a delivered segment at the rate it is delivered with
DurationMs(d) == (d.audio.n * 1000) \div d.sample_rate

ScenarioOver ==
    /\ nextId > ScenarioBlocks
    /\ pc = "read_all"
    /\ audio_queue = <<>>
    /\ chunks = <<>>

\* C5 as stated: in the end-to-end scenario the callback is invoked exactly
\* once, with sample_rate 16000, a segment of about 600 ms (the voiced part
\* only, to within one block) and peak amplitude 0.9.
C5_ScenarioVoicedPartOnly ==
    /\ Len(delivered) <= 1
    /\ ScenarioOver => Len(delivered) = 1
    /\ \A i \in 1..Len(delivered) :
          /\ delivered[i].sample_rate = 16000
          /\ delivered[i].audio.pk = 900
          /\ DurationMs(delivered[i]) >= 600 - Scenario.block_ms
          /\ DurationMs(delivered[i]) <= 600 + Scenario.block_ms

\* C5 amended: in the end-to-end scenario the callback is invoked exactly
\* once, with sample_rate 16000 and a segment of about 1400 ms: the 600 ms
\* voiced part and the 800 ms of trailing silence buffered until the silence
\* threshold elapsed; normalization has set its peak to 0.9.
C5_ScenarioWithTrailingSilence ==
    /\ Len(delivered) <= 1
    /\ ScenarioOver => Len(delivered) = 1
    /\ \A i \in 1..Len(delivered) :
          /\ delivered[i].sample_rate = 16000
          /\ delivered[i].audio.rate = 16000
          /\ delivered[i].audio.pk = 900
          /\ DurationMs(delivered[i]) >= 1400
          /\ DurationMs(delivered[i]) <= 1400 + Scenario.block_ms
          /\ \A j \in 1..Len(delivered[i].audio.blocks) :
                delivered[i].audio.blocks[j].e # KindEnergy("quiet")

\* the scenario has been fed to the end and its one segment delivered
C5_Witness == ScenarioOver /\ Len(delivered) = 1

-----------------------------------------------------------------------------
(* C6 *)

\* C6: when the silence threshold has elapsed, a raw buffer of
\* int(0.5 * working_sample_rate) samples or fewer never reaches the
\* callback, and one of at least one sample more always does.
C6_MinDurationGate ==
    /\ [](\A i \in 1..Len(delivered) :
            delivered[i].raw_n >= working_sample_rate \div 2 + 1)
    /\ [][EmitStep
           => LET total == Frames(Concatenate(buffer)) + Frames(data)
              IN IF total <= working_sample_rate \div 2
                 THEN delivered' = delivered /\ pc' = "read_all"
                 ELSE /\ pc' = "callback"
                      /\ Len(delivered') = Len(delivered) + 1
                      /\ delivered'[Len(delivered')].raw_n = total]_vars

\* a raw buffer of 22051 samples captured at 44100 Hz has been delivered
C6_Witness ==
    /\ working_sample_rate = 44100
    /\ Len(delivered) = 1
    /\ delivered[1].raw_n = 22051

-----------------------------------------------------------------------------
(* C7 *)

\* C7: in SpeechToTextTranscriber.call a raw buffer of at most
\* 0.5 * capture_sample_rate samples is never transcribed.
C7_SttGateAtCaptureRate ==
    \A i \in 1..Len(delivered) :
        2 * delivered[i].raw_n > working_sample_rate

-----------------------------------------------------------------------------
(* C8 *)

\* C8: a failure inside the segment callback does not end the capture loop:
\* the step in which it fails returns the loop to polling with the queue,
\* the buffer and the segmenter untouched, and the loop is never left on an
\* exception.
C8_CallbackFailureContained ==
    /\ [](pc \in {"read_all", "check_paused", "process", "callback",
                  "execute", "speak", "stopped"})
    /\ [][failures' # failures
           => /\ pc' = "read_all"
              /\ audio_queue' = audio_queue
              /\ buffer' = buffer
              /\ last_voice_time' = last_voice_time]_vars

\* the first callback failed and a second segment has just been delivered
C8_Witness ==
    /\ failures = 1
    /\ Len(delivered) = 2
    /\ pc = "callback"

-----------------------------------------------------------------------------
(* C9 *)

\* C9: every segment handed to the callback is passed with sample_rate
\* 16000 and is mono, normalized (peak 0.9, or 0 for an all-zero buffer,
\* within [-1, 1]) and holds the raw samples resampled from the capture rate
\* to 16000 Hz, whatever the capture rate.
C9_DeliveredCanonical ==
    \A i \in 1..Len(delivered) :
        LET d == delivered[i]
        IN /\ d.sample_rate = 16000
           /\ d.audio.rate = 16000
           /\ d.audio.ch = 1
           /\ d.audio.pk <= 1000
           /\ d.audio.pk = IF PeakOf(d.audio.blocks) > 0 THEN 900 ELSE 0
           /\ d.audio.n * working_sample_rate >= d.raw_n * 16000
           /\ (d.audio.n - 1) * working_sample_rate < d.raw_n * 16000

\* a stereo 44100 Hz device: a segment has been delivered
C9_Witness ==
    /\ working_sample_rate = 44100
    /\ channels = 2
    /\ Len(delivered) = 1
    /\ delivered[1].audio.n < delivered[1].raw_n

-----------------------------------------------------------------------------
(* C10 *)

DeliveredIds(i) == Ids(delivered[i].audio.blocks)

\* C10: no block is part of two delivered segments, no delivered block is
\* still in the buffer, and ending the loop delivers nothing: the blocks
\* left in the buffer stay undelivered.
C10_NoSegmentTwice ==
    /\ [](/\ \A i, j \in 1..Len(delivered) :
               i < j => DeliveredIds(i) \cap DeliveredIds(j) = {}
          /\ \A i \in 1..Len(delivered) :
               /\ DeliveredIds(i) \cap Ids(Concatenate(buffer)) = {}
               /\ Cardinality(DeliveredIds(i)) = Len(delivered[i].audio.blocks))
    /\ [][(pc' = "stopped" \/ pc = "stopped")
           => delivered' = delivered /\ buffer' = buffer]_vars

\* two segments have been delivered in one run
C10_Witness ==
    /\ Len(delivered) = 2
    /\ pc = "stopped"

-----------------------------------------------------------------------------
(* C11 *)

\* C11: once _get_working_sample_rate has returned, the working sample rate
\* is a rate the device validates and no candidate that comes earlier in
\* FALLBACK_SAMPLE_RATES validates; whenever some rate validates, a rate is
\* returned.
C11_FirstViableRate ==
    (pc \notin {"negotiate", "stopped"} /\ valid # {}) =>
        /\ working_sample_rate \in valid
        /\ \A i \in 1..Len(FALLBACK_SAMPLE_RATES) :
              i < Position(working_sample_rate)
                  => FALLBACK_SAMPLE_RATES[i] \notin valid

\* a device validating only at 44100 and 48000 is captured at 44100
C11_Witness ==
    /\ valid = {44100, 48000}
    /\ working_sample_rate = 44100
    /\ probes = <<16000, 44100>>
    /\ stream

-----------------------------------------------------------------------------
(* C12 *)

\* C12: on a device that validates no candidate rate, capture() ends in the
\* raised error, which happens only on such a device, with no stream opened,
\* no block pushed and no frame drained, after probing every candidate
\* exactly once in list order.
C12_NoSupportedRateIsFatal ==
    /\ pc = "raised" => valid = {}
    /\ valid = {} =>
          /\ pc \in {"negotiate", "raised", "stopped"}
          /\ ~stream
          /\ working_sample_rate = None
          /\ nextId = 1 /\ audio_queue = <<>> /\ chunks = <<>>
          /\ data = <<>> /\ drained = <<>> /\ delivered = <<>>
          /\ probes = SubSeq(FALLBACK_SAMPLE_RATES, 1, Len(probes))
          /\ pc = "raised" => probes = FALLBACK_SAMPLE_RATES

\* the error has been raised after four probes
C12_Witness ==
    /\ pc = "raised"
    /\ valid = {}
    /\ probes = FALLBACK_SAMPLE_RATES
    /\ ~stream

-----------------------------------------------------------------------------
(* C13 *)

\* read_all returns an array to the capture loop
ReadAllReturnsFrame == ReadAllEmpty /\ pc' = "check_paused"

\* C13: a read_all call whose first get_nowait() finds the queue empty cannot
\* return an array (it returns None and the loop polls again); a call that
\* has dequeued blocks returns, as soon as the queue is empty, exactly those
\* blocks concatenated in the order they were pushed, and none of them is
\* left in the queue.
C13_ReadAllDrainsFifo ==
    [][/\ (pc = "read_all" /\ audio_queue = <<>> /\ chunks = <<>>)
              => ~ENABLED ReadAllReturnsFrame
       /\ (pc = "read_all" /\ audio_queue = <<>> /\ chunks # <<>>)
              => ENABLED ReadAllReturnsFrame
       /\ (pc = "read_all" /\ pc' = "check_paused") =>
              /\ chunks # <<>>
              /\ data' = chunks
              /\ \A i \in 1..(Len(data') - 1) : data'[i + 1].id = data'[i].id + 1
              /\ Ids(data') \cap Ids(audio_queue') = {}
              /\ \A i \in Ids(data'), j \in Ids(audio_queue') : i < j
      ]_vars

\* one read_all call has returned two blocks and left the queue empty
C13_Witness ==
    /\ pc = "check_paused"
    /\ Len(data) = 2
    /\ data[1].id = 1 /\ data[2].id = 2
    /\ audio_queue = <<>>

-----------------------------------------------------------------------------
(* C14 *)

\* C14: while the stream is open the driver's push is enabled whatever the
\* consumer is doing and however many blocks are queued (up to the number of
\* blocks of a run); and the blocks returned by read_all so far, followed by
\* those dequeued by the call in progress and those still queued, are the
\* pushed blocks 1, 2, ... each once and in push order.
C14_QueueHandOff ==
    /\ (stream /\ nextId <= MaxBlocks) => ENABLED AudioStreamCallback
    /\ pc # "stopped" =>
          drained \o IdSeq(chunks) \o IdSeq(audio_queue)
              = [i \in 1..(nextId - 1) |-> i]

\* the driver has pushed block 2 while the loop is processing block 1
C14_Witness ==
    /\ pc = "process"
    /\ drained = <<1>>
    /\ IdSeq(audio_queue) = <<2>>

-----------------------------------------------------------------------------
(* C15 *)

\* C15: in chat.py as wired, the step that starts tts.speak sets paused,
\* paused stays set while tts.speak runs, and every step that leaves
\* tts.speak, by its return or by an exception that ends capture(), leaves
\* paused False.
C15_PauseBracketsSpeak ==
    [][/\ (pc = "execute" /\ pc' = "speak") => paused'
       /\ pc = "speak" => paused
       /\ (pc = "speak" /\ pc' # "speak") => ~paused'
      ]_vars

\* tts.speak has returned, capture is resumed, and a block the driver
\* pushed during the playback is in the queue
C15_Witness ==
    /\ pc = "execute"
    /\ ~paused
    /\ \E i \in 1..Len(audio_queue) : audio_queue[i].dp

-----------------------------------------------------------------------------
(* C16 *)

\* the array with every non-finite sample replaced by 0
Scrubbed(a) ==
    [i \in 1..Len(a) |-> IF a[i].k = "num" THEN a[i] ELSE Num(0)]

\* C16: in the array _normalize_audio returns, every position that held a
\* non-finite sample holds 0, and the array is the one returned for the input
\* with its non-finite samples replaced by 0.
C16_NonFiniteScrubbedToZero ==
    pc = "normalized" =>
        /\ \A i \in 1..Len(samples) :
              samples[i].k # "num" => normalized[i] = Num(0)
        /\ normalized = _normalize_audio_samples(Scrubbed(samples))

-----------------------------------------------------------------------------
(* C17 *)

\* C17: every returned sample is a number in [-1.0, 1.0]; when the scrubbed
\* input has a peak p > 0 the returned peak is 0.9 and every returned sample
\* is the input sample times 0.9 / p, up to the precision of the model; when
\* the input is all zeros and NaNs the returned array is all zeros.
C17_AutoGainScaling ==
    pc = "normalized" =>
        LET in == [i \in 1..Len(samples) |-> nan_to_num(samples[i])]
            p  == abs_max(in)
        IN /\ Len(normalized) = Len(samples)
           /\ \A i \in 1..Len(normalized) :
                 /\ normalized[i].k = "num"
                 /\ Abs(normalized[i].v) <= CLIP_BOUND
           /\ p > 0 =>
                 /\ abs_max(normalized) = GAIN_TARGET
                 /\ \A i \in 1..Len(normalized) :
                       Abs(normalized[i].v * p - in[i].v * GAIN_TARGET) < p
           /\ p = 0 => \A i \in 1..Len(normalized) : normalized[i] = Num(0)

\* an array of peak 0.45 has been returned with peak 0.9
C17_Witness ==
    /\ pc = "normalized"
    /\ samples = <<Num(-450), Num(150), NaN>>
    /\ normalized = <<Num(-900), Num(300), Num(0)>>

-----------------------------------------------------------------------------
(* C18 *)

\* C18: in both loops, whenever the loop is at the top of an iteration, a
\* non-empty buffer implies that last_voice_time is set (Voiced), and an
\* unset last_voice_time (Idle) implies an empty buffer.
C18_BufferOnlyWhileVoiced ==
    pc = "read_all" =>
        /\ buffer # <<>> => Voiced
        /\ Idle => buffer = <<>>

\* a segment was emitted: the loop is back at the top, Idle, with the buffer
\* cleared
C18_Witness ==
    /\ pc = "read_all"
    /\ Idle
    /\ buffer = <<>>
    /\ Len(delivered) = 1

-----------------------------------------------------------------------------
(* C19 *)

\* C19: a step of the capture loop that processes a drained frame in state
\* Idle either finds it voiced, and then sets last_voice_time to the current
\* time and makes the frame the only element of the buffer, emitting nothing;
\* or finds it unvoiced, and then stays Idle with an empty buffer.
C19_OnsetWithoutDebounce ==
    [][(ProcessStep /\ Idle) =>
          /\ delivered' = delivered
          /\ IF _is_voice(data)
             THEN /\ last_voice_time' = clock
                  /\ buffer' = <<data>>
             ELSE /\ last_voice_time' = None
                  /\ buffer' = <<>>
      ]_vars

\* a single voiced block has started a segment
C19_Witness ==
    /\ pc = "read_all"
    /\ Voiced
    /\ last_voice_time = clock
    /\ Len(buffer) = 1
    /\ Len(buffer[1]) = 1
    /\ _is_voice(buffer[1])

-----------------------------------------------------------------------------
(* C20 *)

\* C20: a step of the capture loop that processes a drained frame in state
\* Voiced appends the frame to the buffer, voiced or not: afterwards the
\* buffer is the old one with the frame at its end, or, when the step is
\* the emit transition, the buffer is empty and a delivered segment is the
\* old buffer followed by the frame.  A voiced frame sets last_voice_time
\* to the current time; an unvoiced frame never does: it leaves
\* last_voice_time as it was, unless the emit transition resets it to None.
C20_VoicedAppendsEveryFrame ==
    [][(ProcessStep /\ Voiced) =>
          /\ IF last_voice_time' = None
             THEN /\ buffer' = <<>>
                  /\ pc' = "callback" =>
                        /\ Len(delivered') = Len(delivered) + 1
                        /\ delivered'[Len(delivered')].audio.blocks
                              = Concatenate(Append(buffer, data))
             ELSE /\ buffer' = Append(buffer, data)
                  /\ delivered' = delivered
          /\ _is_voice(data) =>
                /\ last_voice_time' = clock
                /\ buffer' = Append(buffer, data)
          /\ ~_is_voice(data) =>
                /\ last_voice_time' \in {last_voice_time, None}
                /\ ~SilenceElapsed(clock, last_voice_time)
                      => last_voice_time' = last_voice_time
      ]_vars

\* an unvoiced frame was appended after a voiced one, 799 ms later, and
\* last_voice_time still is the time of the voiced one
C20_Witness ==
    /\ pc = "read_all"
    /\ Voiced
    /\ Len(buffer) = 2
    /\ _is_voice(buffer[1])
    /\ ~_is_voice(buffer[2])
    /\ clock - last_voice_time = SILENCE_THRESHOLD_MS - 1

-----------------------------------------------------------------------------
(* C21 *)

\* the consumer is inside the segment callback
InCallback == pc \in {"callback", "execute", "speak"}

\* C21: a step of the capture loop that processes an unvoiced frame in state
\* Voiced 800 ms or more after the last voice leaves the buffer empty and
\* last_voice_time None, whether it hands a segment to the callback or
\* discards it; the segmenter is Idle with an empty buffer all the time the
\* callback runs, and when the callback ends in an error.
C21_EmitResetsBeforeCallback ==
    [][/\ (/\ ProcessStep
           /\ Voiced
           /\ ~_is_voice(data)
           /\ clock - last_voice_time >= SILENCE_THRESHOLD_MS) =>
              /\ buffer' = <<>>
              /\ last_voice_time' = None
       /\ InCallback => (Idle /\ buffer = <<>>)
       /\ failures' = failures + 1 =>
              /\ last_voice_time' = None
              /\ buffer' = <<>>
      ]_vars

\* a callback has ended in an error and the loop polls again, Idle, with
\* an empty buffer
C21_Witness ==
    /\ pc = "read_all"
    /\ failures = 1
    /\ Len(delivered) = 1
    /\ Idle
    /\ buffer = <<>>

-----------------------------------------------------------------------------
(* C22 *)

\* a step of process_audio_stream that runs lines 100-120 on the drained frame
MicStep == pc = "mic_process" /\ pc' \in {"read_all", "mic_transcribe"}

\* C22: in process_audio_stream a frame drained in state Idle that is not
\* voice leaves the buffer as it was; and a step at which the silence
\* threshold has elapsed on a buffer that is too short leaves the buffer empty
\* and last_voice_time None.
C22_MicDiscardsShortAndPreVoice ==
    [][MicStep =>
          LET lvt     == IF is_voice(data) THEN clock ELSE last_voice_time
              segment == Concatenate(Append(buffer, data))
          IN /\ (Idle /\ ~is_voice(data)) => buffer' = buffer
             /\ (/\ lvt # None
                 /\ clock - lvt >= SILENCE_THRESHOLD_MS
                 /\ ~is_min_duration(segment)) =>
                    /\ buffer' = <<>>
                    /\ last_voice_time' = None
      ]_vars

-----------------------------------------------------------------------------
(* C23 *)

\* C23: a step that delivers a segment puts the consumer inside the callback.
\* While the consumer is inside the callback the driver's push stays enabled,
\* and no step other than the end of capture dequeues, returns or processes
\* a frame, changes the buffer or last_voice_time, or delivers a segment: the
\* queue can only grow at its tail.  A read_all that returns a frame returns
\* every block pushed and not returned before, so the blocks pushed during a
\* callback come back together from the first read_all after it.
C23_CallbackIsSynchronous ==
    [][/\ Len(delivered') > Len(delivered) =>
              (pc = "process" /\ pc' = "callback")
       /\ InCallback =>
              /\ (stream /\ nextId <= MaxRunBlocks)
                    => ENABLED AudioStreamCallbackRun
              /\ pc' # "stopped" =>
                    /\ chunks' = chunks
                    /\ data' = data
                    /\ drained' = drained
                    /\ buffer' = buffer
                    /\ last_voice_time' = last_voice_time
                    /\ delivered' = delivered
                    /\ SubSeq(audio_queue', 1, Len(audio_queue)) = audio_queue
       /\ (pc = "read_all" /\ pc' = "check_paused") =>
              /\ drained' = drained \o IdSeq(data')
              /\ drained' = [i \in 1..(nextId - 1) |-> i]
      ]_vars

\* two blocks pushed while tts.speak was running inside the callback have
\* been returned by one read_all after the callback returned
C23_Witness ==
    /\ pc = "check_paused"
    /\ Len(delivered) = 1
    /\ Len(data) = 2
    /\ data[1].dp
    /\ data[2].dp

-----------------------------------------------------------------------------
(* C24 *)

\* C24: with pause() and resume() called from another thread at any moment,
\* an iteration gets to the VAD and the segmenter only from a pause check
\* that read the flag False on a drained frame, so while the flag stays set
\* the only frame that can still be appended or cause an emit is the one
\* whose iteration had passed the check; an iteration whose check reads the
\* flag True goes back to polling with the buffer, last_voice_time and the
\* delivered segments unchanged.
C24_PauseStalenessOnePoll ==
    [][/\ (pc' = "process" /\ pc # "process") =>
              /\ pc = "check_paused"
              /\ ~paused
              /\ data # <<>>
              /\ data' = data
       /\ (pc = "process" /\ pc' # "process") =>
              pc' \in {"read_all", "callback", "stopped"}
       /\ (pc = "check_paused" /\ paused /\ pc' \notin {pc, "stopped"}) =>
              /\ pc' = "read_all"
              /\ data' = <<>>
              /\ buffer' = buffer
              /\ last_voice_time' = last_voice_time
              /\ delivered' = delivered
      ]_vars

\* pause() has returned while an iteration that passed the check still holds
\* its frame
C24_Witness ==
    /\ pc = "process"
    /\ paused
    /\ data # <<>>
    /\ Voiced

-----------------------------------------------------------------------------
(* C25 *)

\* C25: while the stream is open an invocation of AudioStream.callback is
\* enabled with a status and without one; every invocation, whether or not
\* it printed a status, puts its block at the tail of the queue and leaves
\* the consumer where it was and the stream open.
C25_StatusDoesNotStopCapture ==
    [][/\ (stream /\ nextId <= MaxBlocks) =>
              \A status \in BOOLEAN :
                  ENABLED Callback(MaxBlocks,
                                   BlockShapes(working_sample_rate), {status})
       /\ stderr' # stderr => (stderr' = stderr + 1 /\ nextId' = nextId + 1)
       /\ nextId' = nextId + 1 =>
              /\ Len(audio_queue') = Len(audio_queue) + 1
              /\ SubSeq(audio_queue', 1, Len(audio_queue)) = audio_queue
              /\ audio_queue'[Len(audio_queue')].id = nextId
              /\ pc' = pc
              /\ stream' = stream
      ]_vars

\* two blocks that came with a status were enqueued, drained and are being
\* processed
C25_Witness ==
    /\ stderr = 2
    /\ drained = <<1, 2>>
    /\ pc = "process"
    /\ stream

-----------------------------------------------------------------------------
(* C26 *)

\* the peak _normalize_audio leaves on a mono array whose peak was p
NormalizedPeak(p) == IF p > 0 THEN GAIN_TARGET ELSE 0

\* C26: _preprocess_audio starts with the mono reduction; when the
\* normalization starts the array is channel 0 of the input, whatever the
\* other channel holds; when the resampling starts the array is that channel
\* normalized, with the length and rate of the input; when the function
\* returns, an input at 16000 has kept its length, and an input at another
\* rate has the length ceil(n * up / down) and the rate 16000, where up and
\* down are 16000 and the source rate divided by their greatest common
\* divisor, 160 and 441 for 44100.
C26_PreprocessOrderAndRatio ==
    /\ pc = "ensure_mono" => mono = <<>>
    /\ pc = "normalize" =>
          mono = [audio_in EXCEPT !.ndim = 1, !.pk = <<audio_in.pk[1]>>]
    /\ pc = "resample" =>
          mono = [audio_in EXCEPT !.ndim = 1,
                                  !.pk = <<NormalizedPeak(audio_in.pk[1])>>]
    /\ pc = "preprocessed" =>
          LET g    == GCD(16000, audio_in.rate)
              up   == 16000 \div g
              down == audio_in.rate \div g
          IN /\ mono.ndim = 1
             /\ mono.pk = <<NormalizedPeak(audio_in.pk[1])>>
             /\ mono.rate = 16000
             /\ audio_in.rate = 16000 <=> mono.n = audio_in.n
             /\ mono.n * down >= audio_in.n * up
             /\ (mono.n - 1) * down < audio_in.n * up
             /\ audio_in.rate = 44100 => (up = 160 /\ down = 441)
             /\ RatioNumerator(audio_in.rate) = up
             /\ RatioDenominator(audio_in.rate) = down

\* a stereo array at 44100 whose second channel is the louder one has been
\* reduced to channel 0, normalized to 0.9 and resampled by 160/441
C26_Witness ==
    /\ pc = "preprocessed"
    /\ audio_in = [ndim |-> 2, n |-> 22051, pk |-> <<450, 1000>>,
                   rate |-> 44100]
    /\ mono = [ndim |-> 1, n |-> 8001, pk |-> <<900>>, rate |-> 16000]

-----------------------------------------------------------------------------
(* C27 *)

\* C27: a step of the capture loop treats the frame in hand as voice exactly
\* when the sum of its absolute amplitudes exceeds the threshold times its
\* number of samples: then last_voice_time becomes the current time; a frame
\* whose mean equals the threshold, like any frame at or below it, never sets
\* last_voice_time, and is dropped in state Idle.  The outcome depends on the
\* frame alone.
C27_VoiceIffMeanAboveThreshold ==
    [][ProcessStep =>
          LET above == SumAbs(data) > VAD_THRESHOLD * Frames(data)
          IN /\ above => last_voice_time' = clock
             /\ ~above =>
                   /\ last_voice_time' \in {last_voice_time, None}
                   /\ Idle => buffer' = <<>>
             /\ (Len(data) = 1 /\ data[1].e = VAD_THRESHOLD) => ~above
             /\ (Len(data) = 1 /\ data[1].e = VAD_THRESHOLD + 1) => above
      ]_vars

\* a frame just above the threshold started a segment; 799 ms later a frame
\* exactly at the threshold was appended without refreshing last_voice_time
C27_Witness ==
    /\ pc = "read_all"
    /\ Len(buffer) = 2
    /\ Len(buffer[1]) = 1 /\ buffer[1][1].e = VAD_THRESHOLD + 1
    /\ Len(buffer[2]) = 1 /\ buffer[2][1].e = VAD_THRESHOLD
    /\ last_voice_time < clock

-----------------------------------------------------------------------------
(* C28 *)

\* C28: under fair scheduling of the loop, the driver and resume(), with no
\* voiced block after the first, whenever the segmenter is Voiced it is
\* eventually Idle again with an empty buffer.
C28_VoicedLeadsToEmit == Voiced ~> (Idle /\ buffer = <<>>)

\* the segment was emitted by the first unvoiced block that got through
\* after two blocks were dropped during a pause
C28_Witness ==
    /\ Idle
    /\ buffer = <<>>
    /\ Len(delivered) = 1
    /\ Ids(delivered[1].audio.blocks) = {1, 4}

-----------------------------------------------------------------------------
(* C29 *)

\* C29: last_voice_time is reset, the buffer is emptied and a segment is
\* delivered only by a step of the loop body that holds a drained, non-empty,
\* unvoiced frame while Voiced, in an iteration entered from a pause check
\* that read the flag False; the clock does not move in that step, and no
\* step taken while the loop polls an empty queue does any of it.  The gate
\* and the delivered segment are taken on the buffer with the frame in hand
\* appended.
C29_EmitOnlyOnDrainedFrame ==
    [][/\ (pc' = "process" /\ pc # "process") =>
              pc = "check_paused" /\ ~paused /\ data # <<>> /\ data' = data
       /\ (\/ Voiced /\ last_voice_time' = None
           \/ buffer # <<>> /\ buffer' = <<>>
           \/ delivered' # delivered) =>
              /\ pc = "process"
              /\ data # <<>>
              /\ Voiced
              /\ ~_is_voice(data)
              /\ clock' = clock
              /\ clock - last_voice_time >= SILENCE_THRESHOLD_MS
              /\ last_voice_time' = None
              /\ buffer' = <<>>
              /\ LET emitted == Concatenate(Append(buffer, data))
                 IN IF _is_min_duration(emitted, working_sample_rate)
                    THEN /\ delivered' = Append(delivered,
                                Delivery(emitted, working_sample_rate))
                         /\ pc' = "callback"
                    ELSE /\ delivered' = delivered
                         /\ pc' = "read_all"
      ]_vars

\* a segment was handed to the callback whose last block is the unvoiced
\* frame that was in hand when the silence check fired
C29_Witness ==
    /\ pc = "callback"
    /\ Len(delivered) = 1
    /\ LET blocks == delivered[1].audio.blocks
       IN /\ Len(blocks) >= 2
          /\ blocks[Len(blocks)].e <= VAD_THRESHOLD
          /\ blocks[1].e > VAD_THRESHOLD

-----------------------------------------------------------------------------
(* C30 *)

\* C30: the flag is a boolean; a step that changes it, short of the end of
\* capture(), leaves the hand-off queue, the drained frames, the buffer,
\* last_voice_time and the delivered segments as they were; a resume() step
\* always leaves the flag False, and while capture() runs such a step is
\* possible whatever calls of pause() came before.
C30_PauseResumeOnlyFlag ==
    [][/\ paused \in BOOLEAN
       /\ (paused' # paused /\ pc' # "stopped") =>
              UNCHANGED <<audio_queue, chunks, data, buffer, last_voice_time,
                          delivered, clock, nextId>>
       /\ Resume => ~paused'
       /\ pc # "stopped" => ENABLED (Resume /\ ~paused')
      ]_vars

\* an utterance that was in progress through a pause went on in the same
\* buffer after resume(): a second frame was appended to it
C30_Witness ==
    /\ ~paused
    /\ Voiced
    /\ paused_ms > 0
    /\ Len(buffer) = 2
    /\ pc = "read_all"

-----------------------------------------------------------------------------
(* C31 *)

\* C31: an iteration of the loop body takes one voice decision, on the mean
\* over all blocks that read_all returned together, and treats the batch as
\* one: a voiced batch is appended whole and sets last_voice_time; an
\* unvoiced batch while Idle is dropped whole; the blocks of the batch are
\* afterwards either all among the buffered or delivered blocks or none is.
C31_BatchIsOneFrame ==
    [][ProcessStep =>
         LET voiced == SumAbs(data) > VAD_THRESHOLD * SumFrames(data)
             kept == Ids(Heard') \cap Ids(data)
         IN /\ kept = {} \/ kept = Ids(data)
            /\ voiced =>
                  /\ buffer' = Append(buffer, data)
                  /\ last_voice_time' = clock
            /\ (~voiced /\ Idle) =>
                  /\ buffer' = buffer
                  /\ last_voice_time' = None
                  /\ kept = {}
            /\ (~voiced /\ Voiced) =>
                  \/ buffer' = Append(buffer, data)
                  \/ buffer' = <<>> /\ last_voice_time' = None
      ]_vars

\* a batch of two blocks, the first of them unvoiced on its own, was appended
\* whole to the empty buffer
C31_Witness ==
    /\ Len(buffer) = 1
    /\ Len(buffer[1]) = 2
    /\ buffer[1][1].e <= VAD_THRESHOLD
    /\ buffer[1][2].e > VAD_THRESHOLD
    /\ pc = "read_all"

-----------------------------------------------------------------------------
(* C32 *)

\* C32: when the response is not JSON or some element of the list does not
\* validate, process_gpt_response returns without having executed anything;
\* otherwise execute_command is called on the elements one at a time in list
\* order; when a call raises, the function returns at once, catching the
\* exception, with the elements after that one unexecuted; without an
\* exception it returns after the whole list.
C32_ValidateAllThenRunInOrder ==
    [][LET ok == response.json /\ CommandList(response.root)
           root == response.root
       IN /\ ~ok => executed' = <<>> /\ pc' = "returned"
          /\ \/ executed' = executed
             \/ /\ pc = "for_cmd"
                /\ Len(executed) < Len(root)
                /\ executed' = Append(executed, root[Len(executed) + 1])
          /\ failures' > failures => pc' = "returned"
          /\ pc' \in {"for_cmd", "returned"}
          /\ (pc' = "returned" /\ ok /\ failures' = 0) => executed' = root
          /\ response' = response
      ]_vars

\* the second of three valid commands raised: the third was not executed and
\* the function returned
C32_Witness ==
    /\ pc = "returned"
    /\ failures = 1
    /\ response.json
    /\ Len(response.root) = 3
    /\ executed = SubSeq(response.root, 1, 2)

-----------------------------------------------------------------------------
(* C33 *)

MotorsStopped == level = Low /\ duty = Off

\* C33: the chip is opened at most once however often start() is called, and
\* whenever a movement returns normally the four direction pins are at 0 and
\* both PWM outputs have duty 0.
C33_MotorsStoppedAfterMovement ==
    [][/\ opened' <= 1
       /\ (pc = "sleep" /\ pc' = "idle") => MotorsStopped'
      ]_vars

=============================================================================
